---- MODULE Spec2Model ----
(***************************************************************************)
(* SpaceX Launch Records Dashboard (src/Dashboard.ipynb).                  *)
(*                                                                         *)
(* The module-level globals (the launch table and the values derived from  *)
(* it), the two controls and the two figures are the state.  A dataframe   *)
(* is a sequence of rows, a row a record of the four columns the code      *)
(* reads.  The two Dash callbacks are operators computed the way the code  *)
(* computes them; the actions are the events that make Dash call them.     *)
(***************************************************************************)
EXTENDS Integers, Sequences, FiniteSets

VARIABLES
    spacex_df,        \* the table read from spacex_launch_dash.csv
    max_payload,      \* spacex_df['Payload Mass (kg)'].max()
    min_payload,      \* spacex_df['Payload Mass (kg)'].min()
    launch_sites,     \* spacex_df['Launch Site'].unique()
    site_dropdown,    \* 'value' of the component site-dropdown
    payload_slider,   \* 'value' of the component payload-slider, <<low, high>>
    pie_figure,       \* 'figure' of the component success-pie-chart
    scatter_figure,   \* 'figure' of the component success-payload-scatter-chart
    phase,            \* "loaded": the layout is built; "rendered": the page is shown
    pie_at_load       \* history variable: the pie figure of the first rendering

vars == <<spacex_df, max_payload, min_payload, launch_sites, site_dropdown,
          payload_slider, pie_figure, scatter_figure, phase, pie_at_load>>

(***************************************************************************)
(* Bounds of the model and the values the table is drawn from.             *)
(***************************************************************************)
MaxRows == 2

Sites == {"CCAFS LC-40", "VAFB SLC-4E"}

PayloadValues == {500, 2000}

Classes == {0, 1}

Boosters == {"FT"}

Rows == [Launch_Site : Sites, Payload_Mass : PayloadValues,
         class : Classes, Booster_Version_Category : Boosters]

Tables == UNION {[1..n -> Rows] : n \in 1..MaxRows}

(***************************************************************************)
(* Constants of the layout.                                                *)
(***************************************************************************)
SliderMin == 0

SliderMax == 10000

SliderStep == 1000

ALL == "ALL"

\* Python's None: the value of a cleared dropdown.
NoneValue == "None"

\* The figure property of a dcc.Graph no callback has written yet.
NoFigure == [title |-> <<>>, data |-> <<>>]

(***************************************************************************)
(* pandas, as far as the code uses it.                                     *)
(***************************************************************************)
Column(df, c) == [i \in 1..Len(df) |-> df[i][c]]

Range(s) == {s[i] : i \in 1..Len(s)}

\* Series.max() and Series.min()
SeriesMax(s) == CHOOSE m \in Range(s) : \A x \in Range(s) : x <= m

SeriesMin(s) == CHOOSE m \in Range(s) : \A x \in Range(s) : m <= x

\* Series.unique(): the distinct values in order of first appearance
RECURSIVE Unique(_)
Unique(s) ==
    IF s = <<>> THEN <<>>
    ELSE LET front == Unique(SubSeq(s, 1, Len(s) - 1))
             last == s[Len(s)]
         IN IF last \in Range(front) THEN front ELSE Append(front, last)

\* mutant: the upper end of the range is exclusive
FilterByPayloadRange_upper_exclusive(df, low, high) ==
    LET keep(r) == (r.Payload_Mass >= low) /\ (r.Payload_Mass < high)
    IN SelectSeq(df, keep)

\* mutant: the lower end of the range is exclusive
FilterByPayloadRange_lower_exclusive(df, low, high) ==
    LET keep(r) == (r.Payload_Mass > low) /\ (r.Payload_Mass <= high)
    IN SelectSeq(df, keep)

\* df[(df['Payload Mass (kg)'] >= low) & (df['Payload Mass (kg)'] <= high)]
FilterByPayloadRange(df, low, high) ==
    LET keep(r) == (r.Payload_Mass >= low) /\ (r.Payload_Mass <= high)
    IN SelectSeq(df, keep)

\* mutant: the mask is applied to the global table, not to the dataframe given
FilterBySite_global(df, entered_site) ==
    LET keep(r) == r.Launch_Site = entered_site
    IN SelectSeq(spacex_df, keep)

\* mutant: a cleared selection is taken as no site filter
FilterBySite_none_is_all(df, entered_site) ==
    LET keep(r) == (entered_site = NoneValue) \/ (r.Launch_Site = entered_site)
    IN SelectSeq(df, keep)

\* df[df['Launch Site'] == entered_site]; no site equals None
FilterBySite(df, entered_site) ==
    LET keep(r) == r.Launch_Site = entered_site
    IN SelectSeq(df, keep)

\* the group keys of groupby(['class']) in sorted order: the classes that occur
RECURSIVE SortedSeq(_)
SortedSeq(S) ==
    IF S = {} THEN <<>>
    ELSE LET m == CHOOSE x \in S : \A y \in S : x <= y
         IN <<m>> \o SortedSeq(S \ {m})

\* mutant: every group is given the size of the whole dataframe
GroupByClassSize_len(df) ==
    LET keys == SortedSeq(Range(Column(df, "class")))
    IN [i \in 1..Len(keys) |-> [class |-> keys[i], class_count |-> Len(df)]]

\* df.groupby(['class']).size().reset_index(name='class count')
GroupByClassSize(df) ==
    LET keys == SortedSeq(Range(Column(df, "class")))
        size(k) == Len(SelectSeq(df, LAMBDA r : r.class = k))
    IN [i \in 1..Len(keys) |-> [class |-> keys[i], class_count |-> size(keys[i])]]

(***************************************************************************)
(* plotly express, as far as the code uses it.                             *)
(***************************************************************************)
RECURSIVE SumWhere(_, _, _)
SumWhere(names, values, label) ==
    IF names = <<>> THEN 0
    ELSE LET n == Len(names)
             rest == SumWhere(SubSeq(names, 1, n - 1), SubSeq(values, 1, n - 1), label)
         IN IF names[n] = label THEN rest + values[n] ELSE rest

\* mutant: a slice counts the rows with its name instead of summing their values
px_pie_count(df, values, names, title) ==
    [title |-> title,
     data |-> [l \in Range(Column(df, names)) |->
                  Len(SelectSeq(Column(df, names), LAMBDA n : n = l))]]

\* px.pie(df, values=..., names=...): one slice per distinct name, its value
\* the sum of the values of the rows with that name
px_pie(df, values, names, title) ==
    [title |-> title,
     data |-> [l \in Range(Column(df, names)) |->
                  SumWhere(Column(df, names), Column(df, values), l)]]

\* px.scatter(df, x=..., y=..., color=...): one point per row of df
px_scatter(df, x, y, color, title) ==
    [title |-> title, data |-> df, x |-> x, y |-> y, color |-> color]

(***************************************************************************)
(* The callbacks.                                                          *)
(***************************************************************************)
\* mutant: the pie is drawn from the rows in the slider's current range
get_pie_chart_in_range(entered_site) ==
    LET in_range == FilterByPayloadRange(spacex_df, payload_slider[1], payload_slider[2])
    IN IF entered_site = ALL
       THEN px_pie(in_range, "class", "Launch_Site",
                   <<"Total Success Launches By Site">>)
       ELSE px_pie(GroupByClassSize(FilterBySite(in_range, entered_site)),
                   "class_count", "class",
                   <<"Total Success vs. Failure for Site", entered_site>>)

get_pie_chart(entered_site) ==
    IF entered_site = ALL
    THEN px_pie(spacex_df, "class", "Launch_Site",
                <<"Total Success Launches By Site">>)
    ELSE LET filtered_df == FilterBySite(spacex_df, entered_site)
             site_df == GroupByClassSize(filtered_df)
         IN px_pie(site_df, "class_count", "class",
                   <<"Total Success vs. Failure for Site", entered_site>>)

update_scatter_chart(entered_site, payload_range) ==
    LET low == payload_range[1]
        high == payload_range[2]
        df == FilterByPayloadRange(spacex_df, low, high)
    IN IF entered_site = ALL
       THEN px_scatter(df, "Payload_Mass", "class", "Booster_Version_Category",
                       <<"Payload vs. Outcome for All Sites">>)
       ELSE LET filtered_df == FilterBySite(df, entered_site)
            IN px_scatter(filtered_df, "Payload_Mass", "class",
                          "Booster_Version_Category",
                          <<"Payload vs. Outcome for site", entered_site>>)

(***************************************************************************)
(* The controls.                                                           *)
(***************************************************************************)
\* the values of options_list, and None when the selection is cleared
DropdownValues == {ALL} \cup Range(launch_sites) \cup {NoneValue}

\* the positions of a handle of the range slider
SliderValues ==
    {SliderMin + k * SliderStep : k \in 0..((SliderMax - SliderMin) \div SliderStep)}

(***************************************************************************)
(* The state machine.                                                      *)
(***************************************************************************)
Init ==
    /\ spacex_df \in Tables
    /\ max_payload = SeriesMax(Column(spacex_df, "Payload_Mass"))
    /\ min_payload = SeriesMin(Column(spacex_df, "Payload_Mass"))
    /\ launch_sites = Unique(Column(spacex_df, "Launch_Site"))
    /\ site_dropdown = ALL
    /\ payload_slider = <<min_payload, max_payload>>
    /\ pie_figure = NoFigure
    /\ scatter_figure = NoFigure
    /\ phase = "loaded"
    /\ pie_at_load = NoFigure

\* The page is opened: Dash calls every callback once with the layout's values.
InitialRender ==
    /\ phase = "loaded"
    /\ phase' = "rendered"
    /\ pie_figure' = get_pie_chart(site_dropdown)
    /\ scatter_figure' = update_scatter_chart(site_dropdown, payload_slider)
    /\ pie_at_load' = pie_figure'
    /\ UNCHANGED <<spacex_df, max_payload, min_payload, launch_sites,
                   site_dropdown, payload_slider>>

\* mutant: update_scatter_chart does not have the dropdown as an Input
SelectSite_scatter_stale ==
    /\ phase = "rendered"
    /\ \E v \in DropdownValues \ {site_dropdown} :
          /\ site_dropdown' = v
          /\ pie_figure' = get_pie_chart(v)
    /\ UNCHANGED <<spacex_df, max_payload, min_payload, launch_sites,
                   payload_slider, scatter_figure, phase, pie_at_load>>

\* The user changes the dropdown: both callbacks have it as an Input.
SelectSite ==
    /\ phase = "rendered"
    /\ \E v \in DropdownValues \ {site_dropdown} :
          /\ site_dropdown' = v
          /\ pie_figure' = get_pie_chart(v)
          /\ scatter_figure' = update_scatter_chart(v, payload_slider)
    /\ UNCHANGED <<spacex_df, max_payload, min_payload, launch_sites,
                   payload_slider, phase, pie_at_load>>

\* mutant: get_pie_chart has the slider as an Input too and draws the rows in range
SetPayloadRange_redraws_pie ==
    /\ phase = "rendered"
    /\ \E low \in SliderValues, high \in SliderValues :
          /\ low <= high
          /\ <<low, high>> # payload_slider
          /\ payload_slider' = <<low, high>>
          /\ scatter_figure' = update_scatter_chart(site_dropdown, <<low, high>>)
          /\ pie_figure' =
                 px_pie(FilterByPayloadRange(spacex_df, low, high), "class", "Launch_Site",
                        <<"Total Success Launches By Site">>)
    /\ UNCHANGED <<spacex_df, max_payload, min_payload, launch_sites,
                   site_dropdown, phase, pie_at_load>>

\* mutant: update_scatter_chart assigns the filtered rows to the global table
SetPayloadRange_in_place ==
    /\ phase = "rendered"
    /\ \E low \in SliderValues, high \in SliderValues :
          /\ low <= high
          /\ <<low, high>> # payload_slider
          /\ payload_slider' = <<low, high>>
          /\ scatter_figure' = update_scatter_chart(site_dropdown, <<low, high>>)
          /\ spacex_df' = FilterByPayloadRange(spacex_df, low, high)
    /\ UNCHANGED <<max_payload, min_payload, launch_sites,
                   site_dropdown, pie_figure, phase, pie_at_load>>

\* The user moves a handle of the slider: only update_scatter_chart has it as an Input.
SetPayloadRange ==
    /\ phase = "rendered"
    /\ \E low \in SliderValues, high \in SliderValues :
          /\ low <= high
          /\ <<low, high>> # payload_slider
          /\ payload_slider' = <<low, high>>
          /\ scatter_figure' = update_scatter_chart(site_dropdown, <<low, high>>)
    /\ UNCHANGED <<spacex_df, max_payload, min_payload, launch_sites,
                   site_dropdown, pie_figure, phase, pie_at_load>>

Next == InitialRender \/ SelectSite \/ SetPayloadRange

Spec == Init /\ [][Next]_vars

(***************************************************************************)
(* What the claims speak of, stated from the table alone.                  *)
(***************************************************************************)
Rendered == phase = "rendered"

RowIndex == 1..Len(spacex_df)

\* the rows of the table at the indices I, in the table's order
SubTable(I) ==
    [k \in 1..Cardinality(I) |->
        spacex_df[CHOOSE i \in I : Cardinality({j \in I : j <= i}) = k]]

RowsOfSite(s) == {i \in RowIndex : spacex_df[i].Launch_Site = s}

RowsOfClass(c) == {i \in RowIndex : spacex_df[i].class = c}

RowsInRange(low, high) ==
    {i \in RowIndex : low <= spacex_df[i].Payload_Mass /\ spacex_df[i].Payload_Mass <= high}

SitesOfTable == {spacex_df[i].Launch_Site : i \in RowIndex}

RECURSIVE TotalOf(_)
TotalOf(f) ==
    IF DOMAIN f = {} THEN 0
    ELSE LET k == CHOOSE x \in DOMAIN f : TRUE
         IN f[k] + TotalOf([x \in DOMAIN f \ {k} |-> f[x]])

Low == payload_slider[1]

High == payload_slider[2]

C2_PayloadFilterExactAndIdempotent ==
    (Low <= High) =>
        LET df == FilterByPayloadRange(spacex_df, Low, High)
        IN /\ \A k \in 1..Len(df) :
                 Low <= df[k].Payload_Mass /\ df[k].Payload_Mass <= High
           /\ df = SubTable(RowsInRange(Low, High))
           /\ FilterByPayloadRange(df, Low, High) = df

\* the slider was moved to a range with a row on its upper end and a row outside
C2_Witness ==
    /\ Rendered
    /\ site_dropdown = ALL
    /\ payload_slider # <<min_payload, max_payload>>
    /\ Len(scatter_figure.data) = 1
    /\ scatter_figure.data[1].Payload_Mass = High
    /\ Len(spacex_df) = 2

(***************************************************************************)
(* C3                                                                      *)
(***************************************************************************)
\* C3: with "ALL" selected, the pie gives every site of the table the number of
\* that site's rows with class 1, and its values sum to the number of rows of
\* the table with class 1.
C3_SiteSuccessTotals ==
    (Rendered /\ site_dropdown = ALL) =>
        /\ DOMAIN pie_figure.data = SitesOfTable
        /\ \A s \in SitesOfTable :
              pie_figure.data[s] = Cardinality(RowsOfSite(s) \cap RowsOfClass(1))
        /\ TotalOf(pie_figure.data) = Cardinality(RowsOfClass(1))

\* "ALL" is selected over a table with a success at one site and a failure at another
C3_Witness ==
    /\ Rendered
    /\ site_dropdown = ALL
    /\ Cardinality(SitesOfTable) = 2
    /\ RowsOfClass(0) # {}
    /\ TotalOf(pie_figure.data) = 1

(***************************************************************************)
(* C4                                                                      *)
(***************************************************************************)
\* C4: whenever the dropdown holds "ALL", the pie is the pie of the first
\* rendering, whatever sites and ranges were selected in between.
C4_PieDerivedNotAccumulated ==
    (Rendered /\ site_dropdown = ALL) => pie_figure = pie_at_load

\* "ALL" is selected while the slider's range excludes every row: the pie still
\* shows the successes of the first rendering
C4_Witness ==
    /\ Rendered
    /\ site_dropdown = ALL
    /\ RowsInRange(Low, High) = {}
    /\ pie_figure = pie_at_load
    /\ TotalOf(pie_figure.data) = 2

(***************************************************************************)
(* C5                                                                      *)
(***************************************************************************)
\* C5: with the range [min_payload, max_payload] and "ALL" selected, the scatter
\* holds every row of the table, the rows of minimal and maximal payload included.
C5_FullRangeKeepsFullTable ==
    (Rendered /\ site_dropdown = ALL /\ payload_slider = <<min_payload, max_payload>>) =>
        scatter_figure.data = spacex_df

\* the first rendering of a table whose two rows lie on the two ends of the range
C5_Witness ==
    /\ Rendered
    /\ site_dropdown = ALL
    /\ payload_slider = <<min_payload, max_payload>>
    /\ min_payload < max_payload
    /\ Len(scatter_figure.data) = 2

(***************************************************************************)
(* C6                                                                      *)
(***************************************************************************)
\* C6: a step of the rendered page that leaves the selected site unchanged (a
\* change of the payload range) leaves the pie unchanged.
C6_PieIgnoresPayloadRange ==
    [][(Rendered /\ site_dropdown' = site_dropdown) => pie_figure' = pie_figure]_vars

\* a site is selected and the range excludes all its rows: the scatter is empty,
\* the pie is not
C6_Witness ==
    /\ Rendered
    /\ site_dropdown \in SitesOfTable
    /\ RowsOfSite(site_dropdown) \cap RowsInRange(Low, High) = {}
    /\ scatter_figure.data = <<>>
    /\ DOMAIN pie_figure.data # {}

(***************************************************************************)
(* C7                                                                      *)
(***************************************************************************)
\* C7: on the rendered page the scatter holds exactly the rows of the table with
\* low <= payload mass <= high for the slider's range, restricted to the rows of
\* the selected site when that is not "ALL", one point per such row.
C7_ScatterNeverStale ==
    Rendered =>
        LET I == {i \in RowsInRange(Low, High) :
                     site_dropdown # ALL => spacex_df[i].Launch_Site = site_dropdown}
        IN /\ scatter_figure.data = SubTable(I)
           /\ Len(scatter_figure.data) = Cardinality(I)

\* a site is selected and the slider moved: the scatter holds one of two rows
C7_Witness ==
    /\ Rendered
    /\ site_dropdown \in SitesOfTable
    /\ payload_slider # <<min_payload, max_payload>>
    /\ Len(spacex_df) = 2
    /\ Len(scatter_figure.data) = 1
    /\ scatter_figure.data[1].Launch_Site = site_dropdown

(***************************************************************************)
(* C8                                                                      *)
(***************************************************************************)
\* C8: with a selection that is neither "ALL" nor a site of the table (the
\* cleared dropdown), the pie has no counts and the scatter no points; the step
\* that selects it leaves the table and the slider as they were; and every other
\* dropdown value can be selected next.
C8_UnknownSiteGivesEmptyCharts ==
    /\ []((Rendered /\ site_dropdown \notin ({ALL} \cup SitesOfTable)) =>
             /\ DOMAIN pie_figure.data = {}
             /\ scatter_figure.data = <<>>
             /\ DropdownValues \ {site_dropdown} = {ALL} \cup SitesOfTable)
    /\ [][(site_dropdown' # site_dropdown /\ site_dropdown' \notin ({ALL} \cup SitesOfTable)) =>
             /\ spacex_df' = spacex_df
             /\ payload_slider' = payload_slider]_vars

\* the dropdown is cleared while the slider's range holds rows of the table
C8_Witness ==
    /\ Rendered
    /\ site_dropdown = NoneValue
    /\ RowsInRange(Low, High) # {}
    /\ scatter_figure.data = <<>>

(***************************************************************************)
(* C9                                                                      *)
(***************************************************************************)
\* C9: no step changes the table, the minimal and maximal payload or the list
\* of launch sites.
C9_TableReadOnly ==
    [][/\ spacex_df' = spacex_df
       /\ min_payload' = min_payload
       /\ max_payload' = max_payload
       /\ launch_sites' = launch_sites]_vars

\* both callbacks have filtered: a site is selected, the slider moved, and the
\* scatter holds fewer rows than the table
C9_Witness ==
    /\ Rendered
    /\ site_dropdown \notin {ALL, NoneValue}
    /\ payload_slider # <<min_payload, max_payload>>
    /\ Len(scatter_figure.data) < Len(spacex_df)
    /\ Len(launch_sites) = 2

(***************************************************************************)
(* C10                                                                     *)
(***************************************************************************)
\* C10: for the slider's range and every site, filtering the table by payload
\* range and then by site gives the rows that filtering by site and then by
\* payload range gives.
C10_FiltersCommute ==
    \A s \in Sites :
        FilterBySite(FilterByPayloadRange(spacex_df, Low, High), s) =
            FilterByPayloadRange(FilterBySite(spacex_df, s), Low, High)

\* a site is selected and each of the two filters drops a row the other keeps
C10_Witness ==
    /\ Rendered
    /\ site_dropdown \in SitesOfTable
    /\ scatter_figure.data = <<>>
    /\ FilterBySite(spacex_df, site_dropdown) # <<>>
    /\ FilterByPayloadRange(spacex_df, Low, High) # <<>>

====
